---- MODULE Spec2Model ----
(***************************************************************************)
(* Model of the Quarto validation script                                   *)
(* (src/automation/scripts/validate_output.py), of the PDF converter       *)
(* (src/automation/scripts/pdf_to_quarto.py) and of the Nougat converters  *)
(* (src/automation/scripts/nougat_pdf_converter.py,                        *)
(* src/convert_nougat_simple.py).                                          *)
(*                                                                         *)
(* The specifications of the module:                                       *)
(*   SpecScore    calculate_quality_score applied to bounded feature sets; *)
(*   SpecText     the equation patterns applied to bounded document texts; *)
(*   SpecTable    the table pattern applied to bounded document texts;     *)
(*   SpecRecord   validate_file applied to one file of bounded content;    *)
(*   Spec         runs of main over a directory: scan, summary, reports,   *)
(*                exit status;                                             *)
(*   SpecCategory detect_book_category applied to bounded texts, names and *)
(*                keyword mappings;                                        *)
(*   SpecConvert  runs of the PDF converter: configuration, engines,       *)
(*                post-processing, output tree;                            *)
(*   SpecNougat   sequences of Nougat conversions into one directory.      *)
(***************************************************************************)
EXTENDS Integers, Sequences, FiniteSets, TLC

VARIABLES
    \* --- calculate_quality_score on its own -------------------------------
    feat,        \* the `results` dict handed to calculate_quality_score
    scoreDone,   \* TRUE once the call has returned
    score,       \* the value returned
    \* --- the equation patterns on a text ----------------------------------
    text,        \* document text, a sequence of one-character strings
    textDone,    \* TRUE once the patterns have been applied
    counts,      \* [inline_equations, display_equations] found in text
    \* --- validate_file on one file -----------------------------------------
    record,      \* the dict validate_file returned
    recordDone,  \* TRUE once it has returned
    \* --- a run of main ----------------------------------------------------
    chaptersDir, \* the chapters_dir of the validator
    dirExists,   \* does chapters_dir exist
    files,       \* the .qmd files under chapters_dir: path -> [readable, doc]
    now,         \* wall clock, in ticks of 1/TicksPerSecond second
    run,         \* number of the current process run
    pc,          \* position of the current run in main / generate_report
    pending,     \* files rglob has not yielded yet
    scanOrder,   \* paths in the order rglob yielded them (parallel to results)
    results,     \* the list `results` of validate_all_files
    summary,     \* the dict `summary` of validate_all_files
    timestamp,   \* the local `timestamp` of generate_report
    genReturn,   \* what generate_report returned to main
    outFiles,    \* output directory: report file name -> content
    writes,      \* history: every report file opened for writing, with its run
    console,     \* messages printed by the current run
    raised,      \* the unhandled exception that ended the run, or "none"
    exitStatus,  \* process exit status of the run, -1 while running
    listed,      \* the PROBLEM FILES lines printed by the current run
    prevOrder,   \* scanOrder of the previous run
    prevResults, \* results of the previous run
    \* --- detect_book_category on its own (pdf_to_quarto.py) ----------------
    book_content,    \* the document text handed to detect_book_category
    pdf_name,        \* the file name (stem) handed to it
    book_categories, \* config["book_categories"]: category -> keywords, in order
    book_category,   \* the category returned
    categoryDone,    \* TRUE once the call has returned
    \* --- a run of pdf_to_quarto.py: main, convert_single_pdf ---------------
    configFile,  \* the configuration file on disk, or its absence
    config,      \* self.config of the converter, None before __init__
    pdf,         \* the PDF given: does it exist, its stem, what each engine
                 \* makes of it
    convPc,      \* position of the current conversion
    attempts,    \* history: the engines convert_pdf has called, with results
    raw_content, \* what convert_pdf returned
    processed,   \* (processed_content, category) of process_content
    tree,        \* the .qmd files under chapters_dir: path -> content
    treeBefore,  \* history: tree when convert_single_pdf was entered
    returned,    \* what convert_single_pdf returned
    convRaised,  \* the exception that left convert_single_pdf, or "none"
    conversions, \* number of the current conversion
    \* --- the Nougat converters ---------------------------------------------
    mmdFiles,    \* stems of the .mmd files in the Nougat output directory
    nougatCalls  \* history: each conversion call, its PDF and what it returned

scoreVars == <<feat, scoreDone, score>>
textVars  == <<text, textDone, counts>>
recVars   == <<record, recordDone>>
dirVars   == <<chaptersDir, dirExists, files>>
runVars   == <<now, run, pc, pending, scanOrder, results, summary, timestamp,
               genReturn, outFiles, writes, console, raised, exitStatus, listed,
               prevOrder,
               prevResults>>
catVars   == <<book_content, pdf_name, book_categories, book_category, categoryDone>>
convVars  == <<configFile, config, pdf, convPc, attempts, raw_content,
               processed, tree, treeBefore, returned, convRaised, conversions>>
nougatVars == <<mmdFiles, nougatCalls>>
pdfVars   == <<catVars, convVars, nougatVars>>
vars      == <<scoreVars, textVars, recVars, dirVars, runVars, pdfVars>>

----------------------------------------------------------------------------
(* Python built-ins used by the script *)

Min(a, b) == IF a < b THEN a ELSE b

Max(a, b) == IF a > b THEN a ELSE b

RECURSIVE SeqSum(_)
SeqSum(s) == IF s = <<>> THEN 0 ELSE Head(s) + SeqSum(Tail(s))

----------------------------------------------------------------------------
(* calculate_quality_score, validate_output.py lines 70-99 *)

\* The same function with the final clamp left out (return score).
CalculateQualityScoreNoClamp(r) ==
    LET s1 == IF r.word_count > 100 THEN 20 ELSE 0
        s2 == IF r.word_count > 1000 THEN s1 + 10 ELSE s1
        s3 == s2 + Min(r.heading_count * 5, 30)
        math_total == r.inline_equations + r.display_equations
        s4 == s3 + Min(math_total * 2, 20)
        s5 == s4 + Min(r.figure_count * 3, 15)
        s6 == s5 + Min(r.table_count * 3, 10)
        s7 == IF r.has_frontmatter THEN s6 + 10 ELSE s6
        s8 == IF r.word_count < 50 THEN s7 - 20 ELSE s7
    IN  s8

\* The same function with the short-content penalty applied at <= 50 words.
CalculateQualityScorePenalty50(r) ==
    LET s1 == IF r.word_count > 100 THEN 20 ELSE 0
        s2 == IF r.word_count > 1000 THEN s1 + 10 ELSE s1
        s3 == s2 + Min(r.heading_count * 5, 30)
        math_total == r.inline_equations + r.display_equations
        s4 == s3 + Min(math_total * 2, 20)
        s5 == s4 + Min(r.figure_count * 3, 15)
        s6 == s5 + Min(r.table_count * 3, 10)
        s7 == IF r.has_frontmatter THEN s6 + 10 ELSE s6
        s8 == IF r.word_count <= 50 THEN s7 - 20 ELSE s7
    IN  Max(0, Min(100, s8))

CalculateQualityScore(r) ==
    LET s0 == 0
        \* base points for having content
        s1 == IF r.word_count > 100 THEN s0 + 20 ELSE s0
        s2 == IF r.word_count > 1000 THEN s1 + 10 ELSE s1
        \* structure points
        s3 == s2 + Min(r.heading_count * 5, 30)
        \* math content points
        math_total == r.inline_equations + r.display_equations
        s4 == s3 + Min(math_total * 2, 20)
        \* figures and tables
        s5 == s4 + Min(r.figure_count * 3, 15)
        s6 == s5 + Min(r.table_count * 3, 10)
        \* frontmatter
        s7 == IF r.has_frontmatter THEN s6 + 10 ELSE s6
        \* penalize very short content
        s8 == IF r.word_count < 50 THEN s7 - 20 ELSE s7
    IN  Max(0, Min(100, s8))

----------------------------------------------------------------------------
(* SpecScore: the scorer applied to every feature set within the bounds *)

MaxHeadings == 7
MaxEquations == 6
MaxFigures == 6
MaxTables == 4

\* word counts on both sides of every threshold the script tests (50, 100, 1000)
WordCounts == {0, 10, 49, 50, 51, 100, 101, 1000, 1001}

FeatureSets ==
    [word_count : WordCounts,
     heading_count : 0..MaxHeadings,
     inline_equations : 0..MaxEquations,
     display_equations : 0..MaxEquations,
     figure_count : 0..MaxFigures,
     table_count : 0..MaxTables,
     has_frontmatter : BOOLEAN]

NoFeatures ==
    [word_count |-> 0, heading_count |-> 0, inline_equations |-> 0,
     display_equations |-> 0, figure_count |-> 0, table_count |-> 0,
     has_frontmatter |-> FALSE]

InitScoreIdle == feat = NoFeatures /\ scoreDone = FALSE /\ score = 0

\* one call calculate_quality_score(results, content)
ScoreDocument ==
    /\ ~scoreDone
    /\ score' = CalculateQualityScore(feat)
    /\ scoreDone' = TRUE
    /\ UNCHANGED <<feat, textVars, recVars, dirVars, pdfVars, runVars>>

----------------------------------------------------------------------------
(* The equation patterns, validate_output.py lines 19-20, as re.findall      *)
(* applies them at lines 44-45: scan left to right, take the leftmost match, *)
(* resume right after it; matches never overlap.                             *)

MaxTextLen == 10

Alphabet == {"$", "x"}

Texts == UNION {[1..n -> Alphabet] : n \in 0..MaxTextLen}

\* first index j >= i with t[j] = "$", or Len(t) + 1: where a run [^$]* that
\* starts at i stops
RECURSIVE RunEnd(_, _)
RunEnd(t, i) ==
    IF i > Len(t) \/ t[i] = "$" THEN i ELSE RunEnd(t, i + 1)

\* r'\$[^$]+\$' tried at index i: index of the closing "$", or 0 for no match
MatchInline(t, i) ==
    IF i <= Len(t) /\ t[i] = "$"
    THEN LET e == RunEnd(t, i + 1)
         IN  IF e > i + 1 /\ e <= Len(t) THEN e ELSE 0
    ELSE 0

\* r'\$\$[^$]+\$\$' tried at index i: index of the last "$", or 0 for no match
MatchDisplay(t, i) ==
    IF i + 1 <= Len(t) /\ t[i] = "$" /\ t[i + 1] = "$"
    THEN LET e == RunEnd(t, i + 2)
         IN  IF e > i + 2 /\ e + 1 <= Len(t) /\ t[e + 1] = "$"
             THEN e + 1 ELSE 0
    ELSE 0

\* len(re.findall(equations_inline, content[i:])) with the scan at index i
RECURSIVE FindAllInline(_, _)
FindAllInline(t, i) ==
    IF i > Len(t) THEN 0
    ELSE LET e == MatchInline(t, i)
         IN  IF e = 0 THEN FindAllInline(t, i + 1)
             ELSE 1 + FindAllInline(t, e + 1)

RECURSIVE FindAllDisplay(_, _)
FindAllDisplay(t, i) ==
    IF i > Len(t) THEN 0
    ELSE LET e == MatchDisplay(t, i)
         IN  IF e = 0 THEN FindAllDisplay(t, i + 1)
             ELSE 1 + FindAllDisplay(t, e + 1)

InlineEquations(t) == FindAllInline(t, 1)

DisplayEquations(t) == FindAllDisplay(t, 1)

\* math_total * 2 of calculate_quality_score, before the cap of 20
MathTermUncapped(c) == (c.inline_equations + c.display_equations) * 2

NoCounts == [inline_equations |-> 0, display_equations |-> 0]

InitTextIdle == text = <<>> /\ textDone = FALSE /\ counts = NoCounts

\* the two equation counts validate_file takes from the text
ScanText ==
    /\ ~textDone
    /\ counts' = [inline_equations |-> InlineEquations(text),
                  display_equations |-> DisplayEquations(text)]
    /\ textDone' = TRUE
    /\ UNCHANGED <<text, scoreVars, recVars, dirVars, pdfVars, runVars>>

----------------------------------------------------------------------------
(* The table pattern, validate_output.py line 23, as re.findall applies it  *)
(* at line 48: no flags, so "." stops at a newline and ".*?" at the first   *)
(* "|" it can end on.                                                      *)

MaxTableTextLen == 7

TableAlphabet == {"|", "x", "\n"}

TableTexts == UNION {[1..n -> TableAlphabet] : n \in 0..MaxTableTextLen}

\* first index j >= i with t[j] = "|" or a newline, or Len(t) + 1: where the
\* lazy .*? that starts at i has to stop
RECURSIVE LazyEnd(_, _)
LazyEnd(t, i) ==
    IF i > Len(t) \/ t[i] \in {"|", "\n"} THEN i ELSE LazyEnd(t, i + 1)

\* r'\|.*?\|' tried at index i: index of the closing "|", or 0 for no match
MatchTable(t, i) ==
    IF i <= Len(t) /\ t[i] = "|"
    THEN LET e == LazyEnd(t, i + 1)
         IN  IF e <= Len(t) /\ t[e] = "|" THEN e ELSE 0
    ELSE 0

RECURSIVE FindAllTables(_, _)
FindAllTables(t, i) ==
    IF i > Len(t) THEN 0
    ELSE LET e == MatchTable(t, i)
         IN  IF e = 0 THEN FindAllTables(t, i + 1)
             ELSE 1 + FindAllTables(t, e + 1)

\* table_count of validate_file
TableCount(t) == FindAllTables(t, 1)

\* the table count validate_file takes from the text
ScanTableRows ==
    /\ ~textDone
    /\ counts' = [table_count |-> TableCount(text)]
    /\ textDone' = TRUE
    /\ UNCHANGED <<text, scoreVars, recVars, dirVars, pdfVars, runVars>>

----------------------------------------------------------------------------
(* The directory that main scans *)

MaxFiles == 2

\* paths of .qmd files, relative to chapters_dir
AllPaths ==
    <<"optimization/statistics_ch1.qmd", "notes/machine_learn.qmd",
      "machine_learning/ch3.qmd", "statistics/ch4.qmd">>

Paths == {AllPaths[i] : i \in 1..Min(MaxFiles, Len(AllPaths))}

\* the --chapters-dir argument
ChapterDirs == {"./chapters", "./optimization/chapters"}

\* qmd_path.name
PathName(p) ==
    CASE p = "optimization/statistics_ch1.qmd" -> "statistics_ch1.qmd"
      [] p = "notes/machine_learn.qmd" -> "machine_learn.qmd"
      [] p = "machine_learning/ch3.qmd" -> "ch3.qmd"
      [] p = "statistics/ch4.qmd" -> "ch4.qmd"

\* str(qmd_path): the chapters directory, then the relative path
FullPath(p) == <<chaptersDir, p>>

\* The strings above cut into pieces, fine enough to tell where a category
\* label starts and ends in them.
DirTokens(d) ==
    CASE d = "./chapters" -> <<".", "/", "chapters">>
      [] d = "./optimization/chapters" ->
            <<".", "/", "optimization", "/", "chapters">>

RelTokens(p) ==
    CASE p = "optimization/statistics_ch1.qmd" ->
            <<"optimization", "/", "statistics", "_", "ch1", ".qmd">>
      [] p = "notes/machine_learn.qmd" ->
            <<"notes", "/", "machine", "_", "learn", ".qmd">>
      [] p = "machine_learning/ch3.qmd" ->
            <<"machine", "_", "learning", "/", "ch3", ".qmd">>
      [] p = "statistics/ch4.qmd" -> <<"statistics", "/", "ch4", ".qmd">>

PathTokens(fp) == DirTokens(fp[1]) \o <<"/">> \o RelTokens(fp[2])

CategoryTokens(category) ==
    CASE category = "optimization" -> <<"optimization">>
      [] category = "statistics" -> <<"statistics">>
      [] category = "machine_learning" -> <<"machine", "_", "learning">>

\* does s continue with sub from index i on
StartsWithAt(s, sub, i) ==
    /\ i + Len(sub) - 1 <= Len(s)
    /\ \A k \in 1..Len(sub) : s[i + k - 1] = sub[k]

\* Python's `sub in s`: try every start index from the left
RECURSIVE StrContainsFrom(_, _, _)
StrContainsFrom(s, sub, i) ==
    IF i + Len(sub) - 1 > Len(s) THEN FALSE
    ELSE IF StartsWithAt(s, sub, i) THEN TRUE
    ELSE StrContainsFrom(s, sub, i + 1)

\* the label as a whole path component, between two "/"
PathHasComponent(category, fp) ==
    LET s == PathTokens(fp)
        sub == CategoryTokens(category)
    IN  \E i \in 2..Len(s) :
            /\ s[i - 1] = "/"
            /\ StartsWithAt(s, sub, i)
            /\ i + Len(sub) <= Len(s) /\ s[i + Len(sub)] = "/"

\* `category in r['file_path']`
PathContains(category, fp) ==
    StrContainsFrom(PathTokens(fp), CategoryTokens(category), 1)

\* What the patterns and split() find in a file's content: the documents a
\* file may hold, given by their counts.
Doc(fm, words, headings, inl, disp, figs, tabs, code) ==
    [has_frontmatter |-> fm, word_count |-> words, heading_count |-> headings,
     inline_equations |-> inl, display_equations |-> disp,
     figure_count |-> figs, table_count |-> tabs, code_block_count |-> code]

Docs ==
    {Doc(TRUE, 1001, 5, 6, 4, 3, 2, 1),   \* complete chapter
     Doc(TRUE, 101, 1, 0, 0, 0, 0, 0),    \* just valid
     Doc(TRUE, 150, 0, 2, 0, 1, 0, 0),    \* front matter and text, no heading
     Doc(FALSE, 10, 0, 0, 0, 0, 0, 0)}    \* stub

NoDoc == Doc(FALSE, 0, 0, 0, 0, 0, 0, 0)

FileStates ==
    [readable : {TRUE}, doc : Docs] \cup {[readable |-> FALSE, doc |-> NoDoc]}

EmptyDict == [k \in {} |-> 0]

IsEmptyDict(d) == DOMAIN d = {}

HasKey(r, k) == k \in DOMAIN r

----------------------------------------------------------------------------
(* validate_file, validate_output.py lines 27-68.  The record leaves out    *)
(* character_count, file_size_kb and the two dates, which nothing reads.    *)

ErrorRecord(p) ==
    [file |-> PathName(p), error |-> "Could not read file", valid |-> FALSE]

\* validate_file with `valid` taken from front matter and content alone
FileRecordNoStructure(p, d) ==
    LET q == CalculateQualityScore(d)
        has_content == d.word_count > 100
        has_structure == d.heading_count > 0
        has_math == (d.inline_equations + d.display_equations) > 0
    IN  [file |-> PathName(p),
         file_path |-> FullPath(p),
         has_frontmatter |-> d.has_frontmatter,
         inline_equations |-> d.inline_equations,
         display_equations |-> d.display_equations,
         heading_count |-> d.heading_count,
         figure_count |-> d.figure_count,
         table_count |-> d.table_count,
         code_block_count |-> d.code_block_count,
         word_count |-> d.word_count,
         quality_score |-> q,
         has_content |-> has_content,
         has_structure |-> has_structure,
         has_math |-> has_math,
         valid |-> d.has_frontmatter /\ has_content]

FileRecord(p, d) ==
    LET q == CalculateQualityScore(d)
        has_content == d.word_count > 100
        has_structure == d.heading_count > 0
        has_math == (d.inline_equations + d.display_equations) > 0
    IN  [file |-> PathName(p),
         file_path |-> FullPath(p),
         has_frontmatter |-> d.has_frontmatter,
         inline_equations |-> d.inline_equations,
         display_equations |-> d.display_equations,
         heading_count |-> d.heading_count,
         figure_count |-> d.figure_count,
         table_count |-> d.table_count,
         code_block_count |-> d.code_block_count,
         word_count |-> d.word_count,
         quality_score |-> q,
         has_content |-> has_content,
         has_structure |-> has_structure,
         has_math |-> has_math,
         valid |-> d.has_frontmatter /\ has_content /\ has_structure]

\* validate_file with the word counter kept on the validator and never reset:
\* a file's count starts from the count of the file scanned before it
ValidateFileCarryOver(p) ==
    IF ~files[p].readable THEN ErrorRecord(p)
    ELSE LET carried == IF results # <<>> /\ HasKey(results[Len(results)], "word_count")
                        THEN results[Len(results)].word_count ELSE 0
             d == files[p].doc
         IN  FileRecord(p, [d EXCEPT !.word_count = @ + carried])

ValidateFile(p) ==
    IF ~files[p].readable THEN ErrorRecord(p) ELSE FileRecord(p, files[p].doc)

----------------------------------------------------------------------------
(* validate_all_files, lines 101-148 *)

Column(rs, k) == [i \in 1..Len(rs) |-> rs[i][k]]

CountTrue(rs, k) == Cardinality({i \in 1..Len(rs) : rs[i][k]})

\* pandas .mean(): kept as the exact fraction sum / count
Mean(col) == [num |-> SeqSum(col), den |-> Len(col)]

Categories == <<"optimization", "statistics", "machine_learning">>

\* lines 138-146 for one category; every record of rs has a file_path
CategoryFiles(rs, category) ==
    SelectSeq(rs, LAMBDA r : PathContains(category, r.file_path))

CategoryStats(rs) ==
    [file_count |-> Len(rs),
     avg_quality_score |-> Mean(Column(rs, "quality_score")),
     total_words |-> SeqSum(Column(rs, "word_count")),
     total_equations |-> SeqSum(Column(rs, "inline_equations"))
                         + SeqSum(Column(rs, "display_equations"))]

CategoryBreakdown(rs) ==
    LET found == {c \in {Categories[i] : i \in 1..Len(Categories)} :
                    CategoryFiles(rs, c) # <<>>}
    IN  [c \in found |-> CategoryStats(CategoryFiles(rs, c))]

\* the summary with total_equations taken from the inline column alone
SummaryInlineOnly(rs) ==
    [total_files |-> Len(rs),
     valid_files |-> CountTrue(rs, "valid"),
     files_with_frontmatter |-> CountTrue(rs, "has_frontmatter"),
     files_with_content |-> CountTrue(rs, "has_content"),
     files_with_math |-> CountTrue(rs, "has_math"),
     total_words |-> SeqSum(Column(rs, "word_count")),
     total_equations |-> SeqSum(Column(rs, "inline_equations")),
     total_figures |-> SeqSum(Column(rs, "figure_count")),
     total_tables |-> SeqSum(Column(rs, "table_count")),
     avg_quality_score |-> Mean(Column(rs, "quality_score")),
     avg_word_count |-> Mean(Column(rs, "word_count")),
     categories |-> CategoryBreakdown(rs)]

\* lines 119-134 and 136-146, for a list without failed records
Summary(rs) ==
    [total_files |-> Len(rs),
     valid_files |-> CountTrue(rs, "valid"),
     files_with_frontmatter |-> CountTrue(rs, "has_frontmatter"),
     files_with_content |-> CountTrue(rs, "has_content"),
     files_with_math |-> CountTrue(rs, "has_math"),
     total_words |-> SeqSum(Column(rs, "word_count")),
     total_equations |-> SeqSum(Column(rs, "inline_equations"))
                         + SeqSum(Column(rs, "display_equations")),
     total_figures |-> SeqSum(Column(rs, "figure_count")),
     total_tables |-> SeqSum(Column(rs, "table_count")),
     avg_quality_score |-> Mean(Column(rs, "quality_score")),
     avg_word_count |-> Mean(Column(rs, "word_count")),
     categories |-> CategoryBreakdown(rs)]

\* A failed record has the keys file, error and valid only.  With nothing but
\* failed records the frame has no has_frontmatter column (line 124); with
\* some, the category filter reads r['file_path'] of a failed record (line
\* 138).  Either way a KeyError leaves validate_all_files.
SummaryRaises(rs) == \E i \in 1..Len(rs) : ~HasKey(rs[i], "file_path")

----------------------------------------------------------------------------
(* generate_report, lines 150-215, and main, lines 217-238 *)

TicksPerSecond == 2
MaxNow == 3
MaxRuns == 2

\* datetime.now().strftime('%Y%m%d_%H%M%S'): the clock cut to whole seconds
Timestamp(t) == t \div TicksPerSecond

DetailName(ts) == [stem |-> "validation_detailed", stamp |-> ts, ext |-> "csv"]

SummaryName(ts) == [stem |-> "validation_summary", stamp |-> ts, ext |-> "json"]

\* df.to_csv(index=False): one row per element of results
CsvContent(rs) == [rows |-> rs]

\* The Python type of each value of `summary`, in insertion order (lines
\* 121-134): len() gives an int, a pandas .sum() of a bool or integer column
\* a numpy.int64, .mean() a numpy.float64.
SummaryKeys ==
    <<"total_files", "valid_files", "files_with_frontmatter",
      "files_with_content", "files_with_math", "total_words",
      "total_equations", "total_figures", "total_tables",
      "avg_quality_score", "avg_word_count", "categories">>

SummaryType(k) ==
    CASE k = "total_files" -> "int"
      [] k \in {"avg_quality_score", "avg_word_count"} -> "numpy.float64"
      [] k = "categories" -> "dict"
      [] OTHER -> "numpy.int64"

\* json's encoder writes int, float (numpy.float64 is a float subclass), str,
\* bool, None, list and dict; anything else goes to default(), which raises
\* TypeError.
JsonSerializable(type) == type \in {"int", "float", "numpy.float64", "dict"}

\* json.dump(summary, f, indent=2) writes chunk by chunk: the keys that are
\* in the file when the encoder stops
RECURSIVE JsonWritten(_)
JsonWritten(keys) ==
    IF keys = <<>> \/ ~JsonSerializable(SummaryType(Head(keys))) THEN <<>>
    ELSE <<Head(keys)>> \o JsonWritten(Tail(keys))

JsonContent(sm) ==
    LET written == JsonWritten(SummaryKeys)
    IN  [keys |-> written,
         values |-> [i \in 1..Len(written) |-> sm[written[i]]],
         complete |-> written = SummaryKeys]

\* main, lines 233-238
ExitCode(sm) ==
    IF ~IsEmptyDict(sm) /\ sm.valid_files < sm.total_files THEN 1 ELSE 0

\* generate_report lines 196-210: the records printed under PROBLEM FILES
ProblemFiles(rs) ==
    SelectSeq(rs, LAMBDA r : ~r.valid \/ r.quality_score < 50)

\* lines 200-208: the reasons printed for one record
Issues(r) ==
    (IF ~r.has_frontmatter THEN <<[text |-> "No frontmatter"]>> ELSE <<>>)
    \o (IF ~r.has_content THEN <<[text |-> "No content"]>> ELSE <<>>)
    \o (IF ~r.has_structure THEN <<[text |-> "No structure"]>> ELSE <<>>)
    \o (IF r.quality_score < 50
        THEN <<[text |-> "Low quality", score |-> r.quality_score]>> ELSE <<>>)

ProblemListing(rs) ==
    LET pf == ProblemFiles(rs)
    IN  [k \in 1..Len(pf) |-> [file |-> pf[k].file, issues |-> Issues(pf[k])]]

InitRunIdle ==
    /\ chaptersDir = "./chapters" /\ dirExists = FALSE /\ files = EmptyDict
    /\ now = 0 /\ run = 1 /\ pc = "start"
    /\ pending = {} /\ scanOrder = <<>> /\ results = <<>>
    /\ summary = EmptyDict /\ timestamp = 0 /\ genReturn = "unset"
    /\ outFiles = EmptyDict /\ writes = {} /\ console = {}
    /\ raised = "none" /\ exitStatus = -1
    /\ listed = <<>> /\ prevOrder = <<>> /\ prevResults = <<>>

\* an unhandled exception: traceback, exit status 1
Abort(exc) ==
    /\ raised' = exc
    /\ exitStatus' = 1
    /\ pc' = "exited"

\* main to line 230, generate_report line 152, validate_all_files lines 103-107
CheckDir ==
    /\ pc = "start"
    /\ IF ~dirExists
       THEN /\ console' = console \cup {"Chapters directory does not exist"}
            /\ pc' = "generate_report"
            /\ UNCHANGED pending
       ELSE /\ pending' = DOMAIN files
            /\ pc' = "scan"
            /\ UNCHANGED console
    /\ UNCHANGED <<scoreVars, textVars, recVars, dirVars, pdfVars, now, run, scanOrder, results,
                   summary, timestamp, genReturn, outFiles, writes, raised,
                   exitStatus, listed, prevOrder, prevResults>>

\* lines 110-112: rglob yields the files in no promised order
ScanFile ==
    /\ pc = "scan"
    /\ \E p \in pending :
        /\ results' = Append(results, ValidateFile(p))
        /\ scanOrder' = Append(scanOrder, p)
        /\ pending' = pending \ {p}
    /\ UNCHANGED <<scoreVars, textVars, recVars, dirVars, pdfVars, now, run, pc, summary,
                   timestamp, genReturn, outFiles, writes, console, raised,
                   exitStatus, listed, prevOrder, prevResults>>

\* lines 114-148
Summarise ==
    /\ pc = "scan"
    /\ pending = {}
    /\ IF results = <<>>
       THEN /\ console' = console \cup {"No .qmd files found in chapters directory"}
            /\ pc' = "generate_report"
            /\ UNCHANGED <<summary, raised, exitStatus>>
       ELSE IF SummaryRaises(results)
       THEN /\ Abort("KeyError")
            /\ UNCHANGED <<summary, console>>
       ELSE /\ summary' = Summary(results)
            /\ pc' = "generate_report"
            /\ UNCHANGED <<console, raised, exitStatus>>
    /\ UNCHANGED <<scoreVars, textVars, recVars, dirVars, pdfVars, now, run, pending, scanOrder,
                   results, timestamp, genReturn, outFiles, writes, listed, prevOrder,
                   prevResults>>

\* lines 154-156: nothing to validate, generate_report returns None
ReturnNothing ==
    /\ pc = "generate_report"
    /\ results = <<>>
    /\ console' = console \cup {"No files to validate"}
    /\ genReturn' = "None"
    /\ pc' = "main"
    /\ UNCHANGED <<scoreVars, textVars, recVars, dirVars, pdfVars, now, run, pending, scanOrder,
                   results, summary, timestamp, outFiles, writes, raised,
                   exitStatus, listed, prevOrder, prevResults>>

\* lines 158-166: the detail report
WriteDetail ==
    /\ pc = "generate_report"
    /\ results # <<>>
    /\ timestamp' = Timestamp(now)
    /\ LET name == DetailName(Timestamp(now))
       IN  /\ outFiles' = [n \in DOMAIN outFiles \cup {name} |->
                             IF n = name THEN CsvContent(results) ELSE outFiles[n]]
           /\ writes' = writes \cup {[run |-> run, name |-> name]}
    /\ pc' = "write_summary"
    /\ UNCHANGED <<scoreVars, textVars, recVars, dirVars, pdfVars, now, run, pending, scanOrder,
                   results, summary, genReturn, console, raised, exitStatus,
                   listed, prevOrder, prevResults>>

\* lines 169-171, then 173-215 and main 230-238 when the dump completes
WriteSummary ==
    /\ pc = "write_summary"
    /\ LET name == SummaryName(timestamp)
           content == JsonContent(summary)
       IN  /\ outFiles' = [n \in DOMAIN outFiles \cup {name} |->
                             IF n = name THEN content ELSE outFiles[n]]
           /\ writes' = writes \cup {[run |-> run, name |-> name]}
           /\ IF content.complete
              THEN /\ console' = console \cup {"=== VALIDATION SUMMARY ==="}
                   /\ listed' = ProblemListing(results)
                   /\ genReturn' = "tuple"
                   /\ raised' = "none"
                   /\ exitStatus' = ExitCode(summary)
                   /\ pc' = "exited"
              ELSE /\ Abort("TypeError")
                   /\ UNCHANGED <<console, listed, genReturn>>
    /\ UNCHANGED <<scoreVars, textVars, recVars, dirVars, pdfVars, now, run, pending, scanOrder,
                   results, summary, timestamp, prevOrder, prevResults>>

\* main line 230, `results, summary = None`, then lines 233-238
MainUnpack ==
    /\ pc = "main"
    /\ IF genReturn = "None"
       THEN Abort("TypeError")
       ELSE /\ exitStatus' = ExitCode(summary)
            /\ pc' = "exited"
            /\ UNCHANGED raised
    /\ UNCHANGED <<scoreVars, textVars, recVars, dirVars, pdfVars, now, run, pending, scanOrder,
                   results, summary, timestamp, genReturn, outFiles, writes,
                   console, listed, prevOrder, prevResults>>

\* the script is started again, later, with the same arguments
NextRun ==
    /\ pc = "exited"
    /\ run < MaxRuns
    /\ \E t \in (now + 1)..MaxNow : now' = t
    /\ run' = run + 1
    /\ listed' = <<>>
    /\ prevOrder' = scanOrder
    /\ prevResults' = results
    /\ pc' = "start"
    /\ pending' = {} /\ scanOrder' = <<>> /\ results' = <<>>
    /\ summary' = EmptyDict /\ timestamp' = 0 /\ genReturn' = "unset"
    /\ console' = {} /\ raised' = "none" /\ exitStatus' = -1
    /\ UNCHANGED <<scoreVars, textVars, recVars, dirVars, pdfVars, outFiles, writes>>

----------------------------------------------------------------------------
(* validate_file on its own: one file, any content within the bounds *)

MaxRecordHeadings == 2
MaxRecordEquations == 1

WideDocs ==
    {Doc(fm, w, h, i, d, 0, 0, 0) :
        fm \in BOOLEAN, w \in WordCounts, h \in 0..MaxRecordHeadings,
        i \in 0..MaxRecordEquations, d \in 0..MaxRecordEquations}

WideFileStates ==
    [readable : {TRUE}, doc : WideDocs] \cup {[readable |-> FALSE, doc |-> NoDoc]}

InitRecordIdle == record = EmptyDict /\ recordDone = FALSE

\* one call validate_file(qmd_path)
ValidateOne ==
    /\ ~recordDone
    /\ \E p \in DOMAIN files : record' = ValidateFile(p)
    /\ recordDone' = TRUE
    /\ UNCHANGED <<scoreVars, textVars, dirVars, pdfVars, runVars>>

----------------------------------------------------------------------------
(* detect_book_category, pdf_to_quarto.py lines 118-135.  Strings are       *)
(* sequences of one-character strings.                                     *)

MaxContentLen == 4

MaxNameLen == 2

CategoryAlphabet == {"a", "A", "b"}

Contents == UNION {[1..n -> CategoryAlphabet] : n \in 0..MaxContentLen}

Names == UNION {[1..n -> CategoryAlphabet] : n \in 0..MaxNameLen}

\* str.lower()
LowerChar(ch) == IF ch = "A" THEN "a" ELSE IF ch = "B" THEN "b" ELSE ch

Lower(s) == [i \in 1..Len(s) |-> LowerChar(s[i])]

\* s.count(kw) with the scan at index i: occurrences that do not overlap,
\* taken from the left
RECURSIVE CountFrom(_, _, _)
CountFrom(s, kw, i) ==
    IF i + Len(kw) - 1 > Len(s) THEN 0
    ELSE IF SubSeq(s, i, i + Len(kw) - 1) = kw
         THEN 1 + CountFrom(s, kw, i + Len(kw))
         ELSE CountFrom(s, kw, i + 1)

StrCount(s, kw) == IF kw = <<>> THEN Len(s) + 1 ELSE CountFrom(s, kw, 1)

\* the mappings config["book_categories"] is drawn from: a dict keeps the
\* order of the configuration file
BookCategoryMappings ==
    { <<>>,
      << [category |-> "statistics", keywords |-> << <<"a", "b">> >>] >>,
      << [category |-> "optimization", keywords |-> << <<"a", "b">> >>],
         [category |-> "statistics", keywords |-> << <<"a", "a">>, <<"B">> >>],
         [category |-> "machine_learning", keywords |-> << <<"b">> >>] >>,
      << [category |-> "machine_learning", keywords |-> << <<"b">>, <<"A">> >>],
         [category |-> "statistics", keywords |-> << <<"a">>, <<"B">> >>],
         [category |-> "optimization", keywords |-> << <<"A", "a">> >>] >> }

\* lines 125-128: the score of one category
RECURSIVE CategoryScore(_, _, _)
CategoryScore(content_lower, pdf_name_lower, keywords) ==
    IF keywords = <<>> THEN 0
    ELSE LET keyword == Lower(Head(keywords))
         IN  StrCount(content_lower, keyword)
             + StrCount(pdf_name_lower, keyword) * 2
             + CategoryScore(content_lower, pdf_name_lower, Tail(keywords))

\* lines 123-129: category_scores, in the order of the mapping
CategoryScores(doc, name, mapping) ==
    [i \in 1..Len(mapping) |->
        [category |-> mapping[i].category,
         score |-> CategoryScore(Lower(doc), Lower(name), mapping[i].keywords)]]

\* max(category_scores.values())
RECURSIVE MaxScore(_)
MaxScore(scores) ==
    IF scores = <<>> THEN 0
    ELSE Max(Head(scores).score, MaxScore(Tail(scores)))

\* max(d, key=d.get) keeps the later key on a tie
RECURSIVE PyMaxKeyLast(_, _, _)
PyMaxKeyLast(scores, i, best) ==
    IF i > Len(scores) THEN scores[best].category
    ELSE IF scores[i].score >= scores[best].score
         THEN PyMaxKeyLast(scores, i + 1, i)
         ELSE PyMaxKeyLast(scores, i + 1, best)

\* max(d, key=d.get) scanning from entry i with entry `best` the largest so
\* far: a later entry replaces it only when strictly larger
RECURSIVE PyMaxKey(_, _, _)
PyMaxKey(scores, i, best) ==
    IF i > Len(scores) THEN scores[best].category
    ELSE IF scores[i].score > scores[best].score
         THEN PyMaxKey(scores, i + 1, i)
         ELSE PyMaxKey(scores, i + 1, best)

DetectBookCategory(doc, name, mapping) ==
    LET category_scores == CategoryScores(doc, name, mapping)
    IN  IF category_scores = <<>> \/ MaxScore(category_scores) = 0
        THEN "optimization"
        ELSE PyMaxKey(category_scores, 2, 1)

InitCategoryIdle ==
    /\ book_content = <<>> /\ pdf_name = <<>> /\ book_categories = <<>>
    /\ book_category = "unset" /\ categoryDone = FALSE

\* one call detect_book_category(content, pdf_name)
DetectCategory ==
    /\ ~categoryDone
    /\ book_category' = DetectBookCategory(book_content, pdf_name, book_categories)
    /\ categoryDone' = TRUE
    /\ UNCHANGED <<book_content, pdf_name, book_categories, scoreVars, textVars,
                   recVars, dirVars, runVars, convVars, nougatVars>>

----------------------------------------------------------------------------
(* The converter, pdf_to_quarto.py: __init__, convert_pdf and               *)
(* convert_single_pdf.  The regular expressions of clean_equations,        *)
(* format_chapters and process_figures need a backslash, "$$" or "![" to   *)
(* change a text; the texts here hold none, so those steps return them as  *)
(* they are.  The date line of the front matter is left out.               *)

MaxConversions == 2

\* Python values
NoneValue == [type |-> "NoneType"]

Str(t) == [type |-> "str", value |-> t]

\* a local not assigned yet
Unset == [type |-> "unset"]

\* `if content:` with content never tested for emptiness
NotNone(v) == v.type = "str"

\* `if content:` / `if not raw_content:`
Truthy(v) == v.type = "str" /\ v.value # <<>>

\* what an engine makes of a PDF: it is not installed, it raises, or it
\* returns a text, which may be empty
EngineOutcomes ==
    {[raises |-> "ImportError"], [raises |-> "Exception"],
     [raises |-> "none", text |-> <<>>],
     [raises |-> "none", text |-> <<"a", "b">>],
     [raises |-> "none", text |-> <<"b">>]}

Stems == { <<"a", "b">>, <<"a", "-", "b">> }

Pdfs ==
    [exists : {TRUE}, stem : Stems, marker : EngineOutcomes,
     pymupdf : EngineOutcomes]
    \cup [exists : {FALSE}, stem : Stems, marker : {[raises |-> "Exception"]},
          pymupdf : {[raises |-> "Exception"]}]

NoPdf == [exists |-> FALSE, stem |-> <<>>, marker |-> [raises |-> "Exception"],
          pymupdf |-> [raises |-> "Exception"]]

\* lines 30-45: no "book_categories" among the keys
DefaultConfig ==
    [conversion |-> [tool |-> "marker"],
     processing |-> [equation_cleanup |-> TRUE, figure_processing |-> TRUE,
                     table_processing |-> TRUE, chapter_detection |-> TRUE],
     output |-> [chapters_dir |-> "./chapters",
                 temp_dir |-> "./temp/processed_markdown",
                 add_frontmatter |-> TRUE]]

\* configuration files a user may have written
ConfigJsons ==
    { [conversion |-> [tool |-> "marker"],
       processing |-> DefaultConfig.processing,
       output |-> DefaultConfig.output,
       book_categories |->
         << [category |-> "optimization", keywords |-> << <<"a", "b">> >>],
            [category |-> "statistics", keywords |-> << <<"a", "a">>, <<"B">> >>],
            [category |-> "machine_learning", keywords |-> << <<"b">> >>] >>],
      [conversion |-> [tool |-> "pymupdf"],
       processing |-> DefaultConfig.processing,
       output |-> [chapters_dir |-> "./chapters",
                   temp_dir |-> "./temp/processed_markdown",
                   add_frontmatter |-> FALSE],
       book_categories |->
         << [category |-> "statistics", keywords |-> << <<"a">> >>] >>] }

ConfigFiles == {[exists |-> FALSE]} \cup [exists : {TRUE}, json : ConfigJsons]

\* lines 21-28
LoadConfig(f) == IF f.exists THEN f.json ELSE DefaultConfig

\* line 92 with the test of the tool left out
MarkerAlways(cfg) == TRUE

\* line 92: self.config["conversion"]["tool"] == "marker"
MarkerConfigured(cfg) == cfg.conversion.tool = "marker"

\* lines 57-69 and 71-87: the exceptions are caught and None returned
EngineResult(o) == IF o.raises = "none" THEN Str(o.text) ELSE NoneValue

\* str.title() after the two replace() calls of line 170
UpperChar(ch) == IF ch = "a" THEN "A" ELSE IF ch = "b" THEN "B" ELSE ch

CleanTitle(name) ==
    [i \in 1..Len(name) |->
        IF name[i] \in {"_", "-"} THEN " "
        ELSE IF i = 1 \/ name[i - 1] \in {"_", "-", " "}
             THEN UpperChar(name[i])
             ELSE LowerChar(name[i])]

\* lines 166-189
GenerateFrontMatter(cfg, name, cat) ==
    IF cfg.output.add_frontmatter
    THEN [title |-> CleanTitle(name), category |-> cat]
    ELSE [k \in {} |-> 0]

\* lines 191-208, for a configuration that has "book_categories"
ProcessContent(cfg, text_in, name) ==
    LET cat == DetectBookCategory(text_in, name, cfg.book_categories)
    IN  [content |-> [front_matter |-> GenerateFrontMatter(cfg, name, cat),
                      body |-> text_in],
         category |-> cat]

\* lines 213-214: with no character outside [\w\s-] and no white space in
\* the name, each run of "-" becomes one "_"
RECURSIVE CleanName(_)
CleanName(name) ==
    IF name = <<>> THEN <<>>
    ELSE IF Head(name) = "-"
         THEN IF Len(name) > 1 /\ name[2] = "-"
              THEN CleanName(Tail(name))
              ELSE <<"_">> \o CleanName(Tail(name))
         ELSE <<Head(name)>> \o CleanName(Tail(name))

\* lines 217-224: chapters_dir / category / clean_name.qmd
OutputFile(cfg, name, cat) ==
    [dir |-> cfg.output.chapters_dir, category |-> cat,
     name |-> IF CleanName(name) = <<>> THEN "unnamed_chapter"
              ELSE CleanName(name)]

InitConvertIdle ==
    /\ configFile = [exists |-> FALSE] /\ config = NoneValue /\ pdf = NoPdf
    /\ convPc = "new" /\ attempts = <<>> /\ raw_content = NoneValue
    /\ processed = NoneValue /\ tree = [k \in {} |-> 0]
    /\ treeBefore = [k \in {} |-> 0]
    /\ returned = Unset /\ convRaised = "none" /\ conversions = 1

ConvFrame ==
    UNCHANGED <<scoreVars, textVars, recVars, dirVars, runVars, catVars, nougatVars>>

\* main, lines 285-286: PDFToQuartoConverter(args.config)
Construct ==
    /\ convPc = "new"
    /\ config' = LoadConfig(configFile)
    /\ convPc' = "constructed"
    /\ UNCHANGED <<configFile, pdf, attempts, raw_content, processed, tree,
                   treeBefore, returned, convRaised, conversions>>
    /\ ConvFrame

\* lines 231-239: convert_single_pdf is entered with some PDF path
EnterConvertSinglePdf ==
    /\ convPc = "constructed"
    /\ \E f \in Pdfs :
          /\ pdf' = f
          /\ IF f.exists
             THEN convPc' = "convert_pdf" /\ UNCHANGED returned
             ELSE convPc' = "done" /\ returned' = NoneValue
    /\ treeBefore' = tree
    /\ UNCHANGED <<configFile, config, attempts, raw_content, processed, tree,
                   convRaised, conversions>>
    /\ ConvFrame

\* lines 92-95: Marker, when it is the configured tool
TryMarker ==
    /\ convPc = "convert_pdf"
    /\ MarkerConfigured(config)
    /\ LET r == EngineResult(pdf.marker)
       IN  /\ attempts' = Append(attempts, [engine |-> "marker", result |-> r])
           /\ IF Truthy(r)
              THEN raw_content' = r /\ convPc' = "converted"
              ELSE UNCHANGED raw_content /\ convPc' = "fallback"
    /\ UNCHANGED <<configFile, config, pdf, processed, tree, treeBefore,
                   returned, convRaised, conversions>>
    /\ ConvFrame

\* lines 97-99: PyMuPDF, after Marker or in its place
TryPyMuPDF ==
    /\ \/ convPc = "fallback"
       \/ convPc = "convert_pdf" /\ ~MarkerConfigured(config)
    /\ LET r == EngineResult(pdf.pymupdf)
       IN  /\ attempts' = Append(attempts, [engine |-> "pymupdf", result |-> r])
           /\ raw_content' = r
    /\ convPc' = "converted"
    /\ UNCHANGED <<configFile, config, pdf, processed, tree, treeBefore,
                   returned, convRaised, conversions>>
    /\ ConvFrame

\* lines 243-249: the test of raw_content, then process_content, which
\* reads self.config["book_categories"] at line 124
ProcessRawContent ==
    /\ convPc = "converted"
    /\ IF ~Truthy(raw_content)
       THEN /\ returned' = NoneValue
            /\ convPc' = "done"
            /\ UNCHANGED <<processed, convRaised>>
       ELSE IF ~HasKey(config, "book_categories")
            THEN /\ convRaised' = "KeyError"
                 /\ convPc' = "done"
                 /\ UNCHANGED <<processed, returned>>
            ELSE /\ processed' = ProcessContent(config, raw_content.value, pdf.stem)
                 /\ convPc' = "processed"
                 /\ UNCHANGED <<returned, convRaised>>
    /\ UNCHANGED <<configFile, config, pdf, attempts, raw_content, tree,
                   treeBefore, conversions>>
    /\ ConvFrame

\* lines 252-257: save_processed_file, then the return of the path
SaveProcessedFile ==
    /\ convPc = "processed"
    /\ LET output_file == OutputFile(config, pdf.stem, processed.category)
       IN  /\ tree' = [f \in DOMAIN tree \cup {output_file} |->
                          IF f = output_file THEN processed.content ELSE tree[f]]
           /\ returned' = output_file
    /\ convPc' = "done"
    /\ UNCHANGED <<configFile, config, pdf, attempts, raw_content, processed,
                   treeBefore, convRaised, conversions>>
    /\ ConvFrame

\* the script is started again: a new process, the same disk
NextConversion ==
    /\ convPc = "done"
    /\ conversions < MaxConversions
    /\ conversions' = conversions + 1
    /\ config' = NoneValue /\ pdf' = NoPdf /\ convPc' = "new"
    /\ attempts' = <<>> /\ raw_content' = NoneValue /\ processed' = NoneValue
    /\ returned' = Unset /\ convRaised' = "none"
    /\ treeBefore' = tree
    /\ UNCHANGED <<configFile, tree>>
    /\ ConvFrame

----------------------------------------------------------------------------
(* The Nougat converters: convert_pdf_with_nougat                           *)
(* (nougat_pdf_converter.py lines 32-69) and convert_with_nougat_cli       *)
(* (convert_nougat_simple.py lines 8-64).  Nougat writes <stem>.mmd into   *)
(* the output directory; glob() lists a directory in no particular order.  *)

MaxNougatCalls == 3

NougatPdfs == {"01_intro", "02_convex"}

\* what a run of the nougat command does: exit status not 0; exit status 0
\* with <stem>.mmd written; exit status 0 with nothing written
NougatOutcomes == {"failed", "wrote", "wrote_nothing"}

MmdPath(stem) == [type |-> "path", stem |-> stem]

Raised(exc) == [type |-> "raised", exc |-> exc]

\* the output directory after the command has run
AfterNougat(dir, stem, outcome) ==
    IF outcome = "wrote" THEN dir \cup {stem} ELSE dir

\* nougat_pdf_converter.py lines 49-69: the values the call can return
NougatReturns(dir, stem, outcome) ==
    IF outcome = "failed" THEN {NoneValue}
    ELSE IF stem \in dir THEN {MmdPath(stem)}
    ELSE IF dir # {} THEN {MmdPath(f) : f \in dir}
    ELSE {Raised("FileNotFoundError")}

\* convert_nougat_simple.py lines 42-57: the values the call can return
NougatCliReturns(dir, stem, outcome) ==
    IF outcome = "failed" THEN {NoneValue}
    ELSE IF dir # {} THEN {MmdPath(f) : f \in dir}
    ELSE {NoneValue}

InitNougatIdle == mmdFiles = {} /\ nougatCalls = <<>>

NougatFrame ==
    UNCHANGED <<scoreVars, textVars, recVars, dirVars, runVars, catVars, convVars>>

\* one call convert_pdf_with_nougat(pdf_path, output_dir)
ConvertPdfWithNougat ==
    /\ Len(nougatCalls) < MaxNougatCalls
    /\ \E stem \in NougatPdfs : \E outcome \in NougatOutcomes :
          LET dir == AfterNougat(mmdFiles, stem, outcome)
          IN  /\ mmdFiles' = dir
              /\ \E r \in NougatReturns(dir, stem, outcome) :
                    nougatCalls' = Append(nougatCalls,
                        [fn |-> "convert_pdf_with_nougat", pdf |-> stem,
                         outcome |-> outcome, returned |-> r])
    /\ NougatFrame

\* one call convert_with_nougat_cli(pdf_path, output_dir); without
\* nougat.exe (lines 20-22) the command is not run
ConvertWithNougatCli ==
    /\ Len(nougatCalls) < MaxNougatCalls
    /\ \E stem \in NougatPdfs :
          \/ /\ nougatCalls' = Append(nougatCalls,
                    [fn |-> "convert_with_nougat_cli", pdf |-> stem,
                     outcome |-> "no_executable", returned |-> NoneValue])
             /\ UNCHANGED mmdFiles
          \/ \E outcome \in NougatOutcomes :
                LET dir == AfterNougat(mmdFiles, stem, outcome)
                IN  /\ mmdFiles' = dir
                    /\ \E r \in NougatCliReturns(dir, stem, outcome) :
                          nougatCalls' = Append(nougatCalls,
                              [fn |-> "convert_with_nougat_cli", pdf |-> stem,
                               outcome |-> outcome, returned |-> r])
    /\ NougatFrame

InitPdfIdle == InitCategoryIdle /\ InitConvertIdle /\ InitNougatIdle

----------------------------------------------------------------------------
(* The specifications *)

InitRecord ==
    /\ InitScoreIdle /\ InitTextIdle /\ InitRecordIdle /\ InitPdfIdle
    /\ chaptersDir \in ChapterDirs
    /\ dirExists = TRUE
    /\ \E p \in Paths : files \in [{p} -> WideFileStates]
    /\ now = 0 /\ run = 1 /\ pc = "start"
    /\ pending = {} /\ scanOrder = <<>> /\ results = <<>>
    /\ summary = EmptyDict /\ timestamp = 0 /\ genReturn = "unset"
    /\ outFiles = EmptyDict /\ writes = {} /\ console = {}
    /\ raised = "none" /\ exitStatus = -1
    /\ listed = <<>> /\ prevOrder = <<>> /\ prevResults = <<>>

NextRecord == ValidateOne

SpecRecord == InitRecord /\ [][NextRecord]_vars


InitScore == feat \in FeatureSets /\ scoreDone = FALSE /\ score = 0
             /\ InitTextIdle /\ InitRecordIdle /\ InitPdfIdle /\ InitRunIdle

NextScore == ScoreDocument

SpecScore == InitScore /\ [][NextScore]_vars

InitText == text \in Texts /\ textDone = FALSE /\ counts = NoCounts
            /\ InitScoreIdle /\ InitRecordIdle /\ InitPdfIdle /\ InitRunIdle

NextText == ScanText

SpecText == InitText /\ [][NextText]_vars

InitTable == text \in TableTexts /\ textDone = FALSE /\ counts = NoCounts
             /\ InitScoreIdle /\ InitRecordIdle /\ InitPdfIdle /\ InitRunIdle

NextTable == ScanTableRows

SpecTable == InitTable /\ [][NextTable]_vars

InitCategory ==
    /\ book_content \in Contents /\ pdf_name \in Names
    /\ book_categories \in BookCategoryMappings
    /\ book_category = "unset" /\ categoryDone = FALSE
    /\ InitScoreIdle /\ InitTextIdle /\ InitRecordIdle /\ InitRunIdle
    /\ InitConvertIdle /\ InitNougatIdle

NextCategory == DetectCategory

SpecCategory == InitCategory /\ [][NextCategory]_vars

InitConvert ==
    /\ configFile \in ConfigFiles /\ config = NoneValue /\ pdf = NoPdf
    /\ convPc = "new" /\ attempts = <<>> /\ raw_content = NoneValue
    /\ processed = NoneValue /\ tree = [k \in {} |-> 0]
    /\ treeBefore = [k \in {} |-> 0]
    /\ returned = Unset /\ convRaised = "none" /\ conversions = 1
    /\ InitScoreIdle /\ InitTextIdle /\ InitRecordIdle /\ InitRunIdle
    /\ InitCategoryIdle /\ InitNougatIdle

NextConvert ==
    \/ Construct
    \/ EnterConvertSinglePdf
    \/ TryMarker
    \/ TryPyMuPDF
    \/ ProcessRawContent
    \/ SaveProcessedFile
    \/ NextConversion

SpecConvert == InitConvert /\ [][NextConvert]_vars

InitNougat ==
    /\ mmdFiles = {} /\ nougatCalls = <<>>
    /\ InitScoreIdle /\ InitTextIdle /\ InitRecordIdle /\ InitRunIdle
    /\ InitCategoryIdle /\ InitConvertIdle

NextNougat ==
    \/ ConvertPdfWithNougat
    \/ ConvertWithNougatCli

SpecNougat == InitNougat /\ [][NextNougat]_vars

Init ==
    /\ InitScoreIdle /\ InitTextIdle /\ InitRecordIdle /\ InitPdfIdle
    /\ chaptersDir \in ChapterDirs
    /\ dirExists \in BOOLEAN
    /\ \E S \in SUBSET Paths :
         /\ dirExists \/ S = {}
         /\ files \in [S -> FileStates]
    /\ now = 0 /\ run = 1 /\ pc = "start"
    /\ pending = {} /\ scanOrder = <<>> /\ results = <<>>
    /\ summary = EmptyDict /\ timestamp = 0 /\ genReturn = "unset"
    /\ outFiles = EmptyDict /\ writes = {} /\ console = {}
    /\ raised = "none" /\ exitStatus = -1
    /\ listed = <<>> /\ prevOrder = <<>> /\ prevResults = <<>>

Next ==
    \/ CheckDir
    \/ ScanFile
    \/ Summarise
    \/ ReturnNothing
    \/ WriteDetail
    \/ WriteSummary
    \/ MainUnpack
    \/ NextRun

Spec == Init /\ [][Next]_vars

----------------------------------------------------------------------------
(* Properties *)

\* C1: for every feature set, calculate_quality_score returns an integer q
\* with 0 <= q <= 100.
ScoreInRange == scoreDone => score \in 0..100

\* C1 witness: a scored document whose terms add up to 115 before the clamp.
ScoreClampedAbove ==
    /\ scoreDone
    /\ feat.has_frontmatter /\ feat.word_count > 1000
    /\ feat.heading_count = MaxHeadings /\ feat.figure_count = MaxFigures
    /\ feat.inline_equations = MaxEquations /\ feat.table_count = MaxTables
    /\ score = 100

Clamp(lo, hi, x) == IF x < lo THEN lo ELSE IF x > hi THEN hi ELSE x

\* the formula of the specification, section 4.2
ReferenceScore(f) ==
    Clamp(0, 100,
          (IF f.word_count > 100 THEN 20 ELSE 0)
          + (IF f.word_count > 1000 THEN 10 ELSE 0)
          + Min(5 * f.heading_count, 30)
          + Min(2 * (f.inline_equations + f.display_equations), 20)
          + Min(3 * f.figure_count, 15)
          + Min(3 * f.table_count, 10)
          + (IF f.has_frontmatter THEN 10 ELSE 0)
          - (IF f.word_count < 50 THEN 20 ELSE 0))

FullExample(f) ==
    /\ f.has_frontmatter /\ f.word_count > 1000 /\ f.heading_count = 5
    /\ f.inline_equations + f.display_equations = 10
    /\ f.figure_count = 3 /\ f.table_count = 2

StubExample(f) ==
    /\ ~f.has_frontmatter /\ f.word_count = 10 /\ f.heading_count = 0

\* C2: calculate_quality_score equals the reference formula for every feature
\* set; the full example scores 100; a document of 10 words without front
\* matter and headings, and nothing else, scores 0.
ScoreMatchesReference ==
    scoreDone =>
        /\ score = ReferenceScore(feat)
        /\ FullExample(feat) => score = 100
        /\ (StubExample(feat) /\ feat.inline_equations = 0
            /\ feat.display_equations = 0 /\ feat.figure_count = 0
            /\ feat.table_count = 0) => score = 0

\* C2 witness: the full example has been scored, and scored 100.
FullExampleScored == scoreDone /\ FullExample(feat) /\ score = 100

\* C3: in every record validate_file returns, valid holds exactly when
\* has_frontmatter holds, word_count > 100 and heading_count > 0; and
\* has_content = (word_count > 100), has_structure = (heading_count > 0),
\* has_math = (inline_equations + display_equations > 0).  A failed record
\* has none of these keys and is not valid.
RecordFlagsDerived ==
    recordDone =>
        /\ record.valid = (/\ HasKey(record, "has_frontmatter")
                           /\ record.has_frontmatter
                           /\ record.word_count > 100
                           /\ record.heading_count > 0)
        /\ HasKey(record, "word_count") =>
             /\ record.has_content = (record.word_count > 100)
             /\ record.has_structure = (record.heading_count > 0)
             /\ record.has_math =
                  (record.inline_equations + record.display_equations > 0)
        /\ ~HasKey(record, "word_count") => HasKey(record, "error")

\* C3 witness: a record with front matter and more than 100 words that is
\* not valid, for want of a heading.
RecordInvalidWithoutHeading ==
    /\ recordDone
    /\ HasKey(record, "has_frontmatter") /\ record.has_frontmatter
    /\ record.has_content /\ ~record.has_structure /\ ~record.valid

Exited == pc = "exited"

SomeInvalid == \E i \in 1..Len(results) : ~results[i].valid

\* C4: over a directory with at least one .qmd file the process ends with
\* exit status 1 if some record is not valid and with exit status 0 if every
\* record is valid.
ExitStatusTellsValidity ==
    (Exited /\ dirExists /\ DOMAIN files # {}) =>
        exitStatus = (IF SomeInvalid THEN 1 ELSE 0)

ThisRunWrote == {w.name : w \in {v \in writes : v.run = run}}

\* C5: when the input directory is missing or holds no .qmd file, the run
\* says so, has an empty result set, writes no report and ends without an
\* unhandled error.
EmptyRunEndsCleanly ==
    (Exited /\ (~dirExists \/ DOMAIN files = {})) =>
        /\ console \cap {"Chapters directory does not exist",
                         "No .qmd files found in chapters directory"} # {}
        /\ results = <<>>
        /\ ThisRunWrote = {}
        /\ raised = "none"

Unreadable == {p \in DOMAIN files : ~files[p].readable}

FailedRecords == {i \in 1..Len(results) : HasKey(results[i], "error")}

ReadRecords == SelectSeq(results, LAMBDA r : ~HasKey(r, "error"))

\* C6: when a scanned file cannot be read, validate_file yields a failed
\* record with an error message and valid = false, and the run completes
\* without raising: the failed record counts in total_files and as not valid
\* and adds nothing to the sums of words, equations, figures and tables.
UnreadableFileTolerated ==
    (Exited /\ Unreadable # {}) =>
        /\ Cardinality(FailedRecords) = Cardinality(Unreadable)
        /\ \A i \in FailedRecords : ~results[i].valid
        /\ raised = "none"
        /\ ~IsEmptyDict(summary)
        /\ summary.total_files = Len(results)
        /\ summary.valid_files = CountTrue(results, "valid")
        /\ summary.total_words = SeqSum(Column(ReadRecords, "word_count"))
        /\ summary.total_equations =
             SeqSum(Column(ReadRecords, "inline_equations"))
             + SeqSum(Column(ReadRecords, "display_equations"))
        /\ summary.total_figures = SeqSum(Column(ReadRecords, "figure_count"))
        /\ summary.total_tables = SeqSum(Column(ReadRecords, "table_count"))

\* C7: a run of generate_report that has written the detail report never
\* ends with the summary report missing or incomplete: at the end both files
\* of the run exist, the detail report holds one row per record and the
\* summary report is complete.
DetailNeverWithoutSummary ==
    (Exited /\ DetailName(timestamp) \in ThisRunWrote) =>
        /\ SummaryName(timestamp) \in ThisRunWrote
        /\ Len(outFiles[DetailName(timestamp)].rows) = Len(results)
        /\ outFiles[SummaryName(timestamp)].complete

\* C8: two runs with the same output directory never write to the same
\* report file name, also when the second run starts within the clock second
\* of the first.
RunsNeverShareReportName ==
    \A v, w \in writes : v.name = w.name => v.run = w.run

\* C9: two runs of validate_all_files over the same unchanged directory give
\* every file the same record, whatever the order in which each run scans
\* the files.
RescanGivesSameRecords ==
    \A i \in 1..Len(results), j \in 1..Len(prevResults) :
        scanOrder[i] = prevOrder[j] => results[i] = prevResults[j]

\* C9 witness: a second run has scanned two files in the opposite order of
\* the first run.
RescannedInOtherOrder ==
    /\ run = 2 /\ Len(results) = 2 /\ Len(prevResults) = 2
    /\ scanOrder[1] = prevOrder[2] /\ scanOrder[2] = prevOrder[1]
    /\ scanOrder[1] # scanOrder[2]
    /\ HasKey(results[1], "word_count") /\ HasKey(results[2], "word_count")
    /\ results[1].word_count # results[2].word_count

\* the number k of display equations of a text whose only dollar signs form
\* display equations $$body$$ with a non-empty body, read from index i on;
\* -1 for a text of another shape
RECURSIVE DisplayOnly(_, _)
DisplayOnly(t, i) ==
    IF i > Len(t) THEN 0
    ELSE IF t[i] # "$" THEN DisplayOnly(t, i + 1)
    ELSE LET e == RunEnd(t, i + 2)
         IN  IF /\ i + 1 <= Len(t) /\ t[i + 1] = "$"
                /\ e > i + 2
                /\ e + 1 <= Len(t) /\ t[e + 1] = "$"
             THEN LET rest == DisplayOnly(t, e + 2)
                  IN  IF rest < 0 THEN -1 ELSE 1 + rest
             ELSE -1

\* C10: for a text whose only dollar signs form k display equations,
\* validate_file counts display_equations = k and inline_equations = 0, so
\* the uncapped math term of the score is 2 * k.
DisplayNotCountedInline ==
    (textDone /\ DisplayOnly(text, 1) >= 0) =>
        /\ counts.display_equations = DisplayOnly(text, 1)
        /\ counts.inline_equations = 0
        /\ MathTermUncapped(counts) = 2 * DisplayOnly(text, 1)

\* lines of a text: the pieces between newlines
RECURSIVE PipesPerLine(_, _, _)
PipesPerLine(t, i, n) ==
    IF i > Len(t) THEN <<n>>
    ELSE IF t[i] = "\n" THEN <<n>> \o PipesPerLine(t, i + 1, 0)
    ELSE PipesPerLine(t, i + 1, IF t[i] = "|" THEN n + 1 ELSE n)

LinesWithTwoPipes(t) ==
    LET per == PipesPerLine(t, 1, 0)
    IN  Cardinality({k \in 1..Len(per) : per[k] >= 2})

\* C11: table_count equals the number of lines that contain at least two
\* "|": such a line counts once whatever its number of "|", any other line
\* counts zero.
TableCountIsRowCount ==
    textDone => counts.table_count = LinesWithTwoPipes(text)

IssueTexts(entry) == {entry.issues[k].text : k \in 1..Len(entry.issues)}

Flag(r, k) == HasKey(r, k) /\ r[k]

LowQuality(r) == HasKey(r, "quality_score") /\ r.quality_score < 50

\* C12: at the end of a run generate_report has listed a record as a problem
\* file exactly if the record is invalid or scores below 50, and the reasons
\* listed are exactly those that apply: "No frontmatter", "No content",
\* "No structure" for the flag that is false, "Low quality" with the score
\* for a score below 50; so every listed record has a reason.
ProblemFilesListedWithReasons ==
    Exited =>
        \A i \in 1..Len(results) :
            LET r == results[i]
                at == {k \in 1..Len(listed) : listed[k].file = r.file}
            IN  /\ (at # {}) <=> (~r.valid \/ LowQuality(r))
                /\ \A k \in at :
                     /\ ("No frontmatter" \in IssueTexts(listed[k]))
                          <=> ~Flag(r, "has_frontmatter")
                     /\ ("No content" \in IssueTexts(listed[k]))
                          <=> ~Flag(r, "has_content")
                     /\ ("No structure" \in IssueTexts(listed[k]))
                          <=> ~Flag(r, "has_structure")
                     /\ ("Low quality" \in IssueTexts(listed[k]))
                          <=> LowQuality(r)
                     /\ \A n \in 1..Len(listed[k].issues) :
                          listed[k].issues[n].text = "Low quality"
                            => listed[k].issues[n].score = r.quality_score
                     /\ listed[k].issues # <<>>

\* label occurs in s as a substring
OccursIn(label, s) ==
    \E k \in 0..(Len(s) - Len(label)) :
        SubSeq(s, k + 1, k + Len(label)) = label

Labels == {"optimization", "statistics", "machine_learning"}

RecordsWithLabel(c) ==
    {i \in 1..Len(results) :
        OccursIn(CategoryTokens(c), PathTokens(results[i].file_path))}

\* C13: for each category label the file_count of the summary is the number
\* of records whose file path contains the label anywhere, the chapters
\* directory included; a record is counted in every label its path contains
\* and in none if it contains none; a label no record matches has no entry.
CategoryCountsBySubstring ==
    ~IsEmptyDict(summary) =>
        /\ DOMAIN summary.categories \subseteq Labels
        /\ \A c \in Labels :
             IF RecordsWithLabel(c) = {}
             THEN c \notin DOMAIN summary.categories
             ELSE /\ c \in DOMAIN summary.categories
                  /\ summary.categories[c].file_count
                       = Cardinality(RecordsWithLabel(c))

\* C13 witness: a summary over two records, one counted under both
\* optimization and statistics (the latter from its file name), one counted
\* under no label, and no entry for machine_learning.
CategoriesOverlapAndMiss ==
    /\ ~IsEmptyDict(summary)
    /\ Len(results) = 2
    /\ chaptersDir = "./chapters"
    /\ RecordsWithLabel("optimization") = RecordsWithLabel("statistics")
    /\ Cardinality(RecordsWithLabel("statistics")) = 1
    /\ summary.categories["optimization"].file_count = 1
    /\ summary.categories["statistics"].file_count = 1
    /\ "machine_learning" \notin DOMAIN summary.categories

One(b) == IF b THEN 1 ELSE 0

\* the totals of a list of records, added up record by record
RECURSIVE Tally(_)
Tally(rs) ==
    IF rs = <<>>
    THEN [n |-> 0, valid |-> 0, fm |-> 0, content |-> 0, math |-> 0,
          words |-> 0, equations |-> 0, figures |-> 0, tables |-> 0]
    ELSE LET r == Head(rs)
             t == Tally(Tail(rs))
         IN  [n |-> t.n + 1,
              valid |-> t.valid + One(r.valid),
              fm |-> t.fm + One(r.has_frontmatter),
              content |-> t.content + One(r.has_content),
              math |-> t.math + One(r.has_math),
              words |-> t.words + r.word_count,
              equations |-> t.equations + r.inline_equations
                            + r.display_equations,
              figures |-> t.figures + r.figure_count,
              tables |-> t.tables + r.table_count]

\* C14: the Summary Record aggregates exactly the Document Records of the
\* run: counts of records, of valid records and of records with each flag,
\* sums of words, figures, tables and of inline plus display equations; so
\* valid_files <= files_with_frontmatter <= total_files and
\* valid_files <= files_with_content.
SummaryAggregatesRecords ==
    ~IsEmptyDict(summary) =>
        LET t == Tally(results)
        IN  /\ summary.total_files = t.n
            /\ summary.valid_files = t.valid
            /\ summary.files_with_frontmatter = t.fm
            /\ summary.files_with_content = t.content
            /\ summary.files_with_math = t.math
            /\ summary.total_words = t.words
            /\ summary.total_equations = t.equations
            /\ summary.total_figures = t.figures
            /\ summary.total_tables = t.tables
            /\ summary.valid_files <= summary.files_with_frontmatter
            /\ summary.files_with_frontmatter <= summary.total_files
            /\ summary.valid_files <= summary.files_with_content

\* C14 witness: the summary of a complete chapter and a stub: two files, one
\* valid, ten equations of which four are display equations.
SummaryOfChapterAndStub ==
    /\ ~IsEmptyDict(summary)
    /\ summary.total_files = 2 /\ summary.valid_files = 1
    /\ summary.files_with_frontmatter = 1
    /\ summary.total_words = 1011 /\ summary.total_equations = 10
    /\ \E i \in 1..Len(results) : results[i].display_equations = 4

\* two letters that differ at most in case
SameLetter(x, y) == x = y \/ {x, y} = {"a", "A"} \/ {x, y} = {"b", "B"}

\* the places of s where kw stands, whatever the case
MatchPlaces(s, kw) ==
    {i \in 1..(Len(s) - Len(kw) + 1) :
        \A k \in 1..Len(kw) : SameLetter(s[i + k - 1], kw[k])}

\* the largest number of occurrences of kw in s that do not overlap
Occurrences(s, kw) ==
    LET apart(P) == \A i \in P : \A j \in P : i < j => j - i >= Len(kw)
        sizes == {Cardinality(P) : P \in {Q \in SUBSET MatchPlaces(s, kw) : apart(Q)}}
    IN  CHOOSE n \in sizes : \A m \in sizes : m <= n

RECURSIVE KeywordTotal(_, _)
KeywordTotal(keywords, k) ==
    IF k > Len(keywords) THEN 0
    ELSE Occurrences(book_content, keywords[k])
         + 2 * Occurrences(pdf_name, keywords[k])
         + KeywordTotal(keywords, k + 1)

DeclaredScore(i) == KeywordTotal(book_categories[i].keywords, 1)

\* C15: detect_book_category returns the category with the highest score,
\* the score of a category being the sum over its keywords of the
\* case-insensitive occurrences in the text plus twice those in the file
\* name; of several categories with the highest score the first declared in
\* the mapping wins; an empty mapping or all scores 0 give "optimization".
CategoryIsFirstHighest ==
    categoryDone =>
        LET n == Len(book_categories)
        IN  IF n = 0 \/ \A i \in 1..n : DeclaredScore(i) = 0
            THEN book_category = "optimization"
            ELSE \E i \in 1..n :
                    /\ book_category = book_categories[i].category
                    /\ \A j \in 1..n : DeclaredScore(j) <= DeclaredScore(i)
                    /\ \A j \in 1..(i - 1) : DeclaredScore(j) < DeclaredScore(i)

\* C15 witness: two categories share the highest score, the file name
\* contributes to it, and the first declared of them is returned although it
\* is not the default.
TieGoesToFirstDeclared ==
    /\ categoryDone
    /\ \E i \in 1..Len(book_categories) : \E j \in 1..Len(book_categories) :
          /\ i < j
          /\ DeclaredScore(i) = DeclaredScore(j)
          /\ DeclaredScore(i) > 0
          /\ \A k \in 1..Len(book_categories) : DeclaredScore(k) <= DeclaredScore(i)
          /\ \A k \in 1..(i - 1) : DeclaredScore(k) < DeclaredScore(i)
          /\ book_category = book_categories[i].category
          /\ book_category # "optimization"
          /\ \E kw \in {book_categories[i].keywords[k] :
                          k \in 1..Len(book_categories[i].keywords)} :
                Occurrences(pdf_name, kw) > 0

HasText(v) == v.type = "str" /\ Len(v.value) > 0

ConvertPdfReturned == pdf.exists /\ convPc \in {"converted", "processed", "done"}

\* C16: convert_pdf tries the engines in a fixed order: with tool "marker"
\* Marker comes first and PyMuPDF only after Marker gave nothing or an empty
\* text; with any other tool Marker is never tried; convert_pdf returns no
\* content only if every engine tried, PyMuPDF among them, gave none; PyMuPDF
\* is never tried after Marker gave a text.
EnginesTriedInOrder ==
    config # NoneValue =>
        /\ config.conversion.tool = "marker" /\ attempts # <<>>
              => attempts[1].engine = "marker"
        /\ config.conversion.tool # "marker"
              => \A i \in 1..Len(attempts) : attempts[i].engine # "marker"
        /\ \A i \in 1..Len(attempts) : \A j \in 1..Len(attempts) :
              j < i /\ attempts[i].engine = "pymupdf"
                 => attempts[j].engine = "marker" /\ ~HasText(attempts[j].result)
        /\ ConvertPdfReturned => attempts # <<>>
        /\ ConvertPdfReturned /\ ~HasText(raw_content)
              => /\ attempts[Len(attempts)].engine = "pymupdf"
                 /\ \A i \in 1..Len(attempts) : ~HasText(attempts[i].result)
        /\ ConvertPdfReturned /\ HasText(raw_content)
              => raw_content = attempts[Len(attempts)].result

\* C16 witness: Marker is the tool and returns an empty text, PyMuPDF is
\* tried after it and its text is what convert_pdf returns.
MarkerEmptyThenPyMuPDF ==
    /\ convPc = "converted"
    /\ Len(attempts) = 2
    /\ attempts[1] = [engine |-> "marker", result |-> Str(<<>>)]
    /\ attempts[2].engine = "pymupdf"
    /\ HasText(raw_content)

\* C17: with the configuration file missing the converter works from the
\* default configuration: convert_single_pdf on an existing PDF of which an
\* engine returns a text raises nothing and writes one .qmd file.
DefaultConfigUsable ==
    ( /\ ~configFile.exists
      /\ convPc = "done"
      /\ pdf.exists
      /\ \E i \in 1..Len(attempts) : HasText(attempts[i].result) )
    => /\ convRaised = "none"
       /\ returned \in DOMAIN tree

\* C20: convert_single_pdf leaves the output tree as it was when the PDF
\* does not exist or no engine returns content, and returns None; a file is
\* written only after conversion and post-processing have completed.
FailureLeavesTree ==
    /\ ( /\ convPc = "done"
         /\ \/ ~pdf.exists
            \/ attempts # <<>>
               /\ \A i \in 1..Len(attempts) : ~HasText(attempts[i].result) )
       => returned = NoneValue /\ tree = treeBefore
    /\ convPc \in {"convert_pdf", "fallback", "converted", "processed"}
       => tree = treeBefore
    /\ tree # treeBefore => HasText(raw_content) /\ processed # NoneValue

\* C20 witness: an earlier conversion has left a file; this one finds every
\* engine without content for a PDF of the same name, returns None and the
\* file is as it was.
FailedOverEarlierOutput ==
    /\ convPc = "done"
    /\ pdf.exists
    /\ attempts # <<>>
    /\ \A i \in 1..Len(attempts) : ~HasText(attempts[i].result)
    /\ returned = NoneValue
    /\ \E f \in DOMAIN tree : f.name = CleanName(pdf.stem)

\* C18: a markdown file returned by a Nougat conversion call is the file
\* that call produced for its PDF: no call returns an .mmd file left in the
\* output directory by an earlier conversion of another PDF.
NougatReturnsOwnFile ==
    \A i \in 1..Len(nougatCalls) :
        nougatCalls[i].returned.type = "path"
           => nougatCalls[i].returned.stem = nougatCalls[i].pdf

ValidRecords == {i \in 1..Len(results) : results[i].valid}

\* C19: every record with valid = true scores at least 35; and a run whose
\* records are all valid, one of them scoring below 50, lists that record
\* under the problem files and still exits with status 0.
ValidScoresAtLeast35AndMayBeListed ==
    /\ \A i \in ValidRecords : results[i].quality_score >= 35
    /\ ( /\ Exited
         /\ results # <<>>
         /\ ValidRecords = 1..Len(results) )
       => /\ exitStatus = 0
          /\ \A i \in ValidRecords :
                results[i].quality_score < 50
                   => \E k \in 1..Len(listed) : listed[k].file = results[i].file

====
